---- MODULE Spec2Model ----
(***************************************************************************)
(* A model of the classical-ciphers library: Caesar, Atbash, Affine,       *)
(* Vigenere, XOR, Polybius and the planetary magic squares.                *)
(*                                                                         *)
(* A `char` is its Unicode code point, a `String` / `&str` is the sequence *)
(* of its chars, a byte is a number in 0..255.  A cipher value is a record *)
(* whose `kind` names its type.  The driver constructs one cipher, calls   *)
(* encrypt on a text and then decrypt on the result.                       *)
(***************************************************************************)
EXTENDS Integers, Sequences, FiniteSets, TLC

VARIABLES pc, args, cipher, input, ct, dt, panicked

vars == <<pc, args, cipher, input, ct, dt, panicked>>

----------------------------------------------------------------------------
(* Bounds of the model *)

\* longest text over SmallChars handed to encrypt
MaxLen == 3
\* longest key (Vigenere key text, XOR key bytes)
MaxKeyLen == 2

SeqsUpTo(S, n) == UNION {[1..k -> S] : k \in 0..n}

----------------------------------------------------------------------------
(* char and i32 primitives of the Rust standard library *)

I32_MAX == 2147483647
I32_MIN == -2147483647 - 1

is_ascii_uppercase(c) == c \in 65..90
is_ascii_lowercase(c) == c \in 97..122
is_ascii_alphabetic(c) == is_ascii_uppercase(c) \/ is_ascii_lowercase(c)
is_ascii_digit(c) == c \in 48..57

\* i32::rem_euclid with a positive modulus: the result is in 0..m-1
rem_euclid(x, m) == x % m

\* the letters A..Z and a..z, a digit, punctuation, a space, and e-acute
Upper == 65..90
Lower == 97..122
OtherChars == {32, 44, 53, 233}
AllChars == Upper \cup Lower \cup OtherChars
\* 'B', 'y', '5', e-acute
SmallChars == {66, 121, 53, 233}

\* the texts handed to encrypt: every single char, and every short text
Texts == {<<c>> : c \in AllChars} \cup SeqsUpTo(SmallChars, MaxLen)

\* the result of an operation that ran to completion, or that panicked
Ok(s) == [panic |-> FALSE, out |-> s]
Panic == [panic |-> TRUE, out |-> <<>>]

None == [kind |-> "None"]

----------------------------------------------------------------------------
(* affine.rs *)

RECURSIVE egcd(_, _, _, _)
\* the while loop of mod_inverse; the operands stay within 0..26 and
\* -26..26, so the i32 arithmetic is exact
egcd(old_r, r, old_s, s) ==
    IF r = 0 THEN <<old_r, old_s>>
    ELSE LET quotient == old_r \div r
         IN  egcd(r, old_r - quotient * r, s, old_s - quotient * s)

\* the same with the final test written `old_r == 0` in place of `old_r != 1`
mod_inverse_wrong_test(a, m) ==
    LET a0 == rem_euclid(a, m)
        res == egcd(a0, m, 1, 0)
    IN  IF res[1] = 0 THEN [some |-> FALSE, val |-> 0]
        ELSE [some |-> TRUE, val |-> rem_euclid(res[2], m)]

mod_inverse(a, m) ==
    LET a0 == rem_euclid(a, m)
        res == egcd(a0, m, 1, 0)
    IN  IF res[1] # 1 THEN [some |-> FALSE, val |-> 0]
        ELSE [some |-> TRUE, val |-> rem_euclid(res[2], m)]

Affine_new(a, b) ==
    LET inv == mod_inverse(a, 26)
    IN  IF ~inv.some THEN None
        ELSE [kind |-> "Affine", a |-> rem_euclid(a, 26), a_inv |-> inv.val,
              b |-> rem_euclid(b, 26)]

Affine_caesar(shift) ==
    [kind |-> "Affine", a |-> 1, a_inv |-> 1, b |-> rem_euclid(shift, 26)]

Affine_rot13 == Affine_caesar(13)

\* the same with the truncating remainder `%` of Rust in place of rem_euclid
Affine_transform_char_trunc(self, c, encrypt) ==
    IF ~is_ascii_alphabetic(c) THEN c
    ELSE LET base == IF is_ascii_uppercase(c) THEN 65 ELSE 97
             x == c - base
             v == IF encrypt THEN self.a * x + self.b
                  ELSE self.a_inv * (x - self.b)
             result == IF v >= 0 THEN v % 26 ELSE -((-v) % 26)
         IN  base + result

Affine_transform_char(self, c, encrypt) ==
    IF ~is_ascii_alphabetic(c) THEN c
    ELSE LET base == IF is_ascii_uppercase(c) THEN 65 ELSE 97
             x == c - base
             result == IF encrypt
                       THEN rem_euclid(self.a * x + self.b, 26)
                       ELSE rem_euclid(self.a_inv * (x - self.b), 26)
         IN  base + result

Affine_encrypt(self, s) ==
    [i \in 1..Len(s) |-> Affine_transform_char(self, s[i], TRUE)]

Affine_decrypt(self, s) ==
    [i \in 1..Len(s) |-> Affine_transform_char(self, s[i], FALSE)]

\* the keys handed to Affine::new
AffineAs == (0..25) \cup {-27, -26, -25, -1, 26, 27, 31, 52, I32_MIN, I32_MAX}
AffineBs == (0..25) \cup {-27, -1, 26, 30, I32_MIN, I32_MAX}
CaesarShiftsOfAffine == {-27, -3, 0, 3, 13, 26, 29, I32_MIN, I32_MAX}

----------------------------------------------------------------------------
(* caesar.rs *)

\* x + y in i32: a build with overflow checks panics on overflow, a build
\* without them wraps around modulo 2^32
i32_add(x, y, overflow_checks) ==
    IF y > 0 /\ x > I32_MAX - y
    THEN IF overflow_checks THEN [panic |-> TRUE, val |-> 0]
         ELSE [panic |-> FALSE, val |-> (x + I32_MIN) + (y + I32_MIN)]
    ELSE IF y < 0 /\ x < I32_MIN - y
    THEN IF overflow_checks THEN [panic |-> TRUE, val |-> 0]
         ELSE [panic |-> FALSE, val |-> (x - I32_MIN) + (y - I32_MIN)]
    ELSE [panic |-> FALSE, val |-> x + y]

\* -x in i32: -i32::MIN overflows
i32_neg(x, overflow_checks) ==
    IF x = I32_MIN
    THEN IF overflow_checks THEN [panic |-> TRUE, val |-> 0]
         ELSE [panic |-> FALSE, val |-> I32_MIN]
    ELSE [panic |-> FALSE, val |-> -x]

Caesar_new(shift) == [kind |-> "Caesar", shift |-> shift]

Caesar_rot13 == Caesar_new(13)

\* the same with the truncating remainder `%` of Rust in place of rem_euclid
Caesar_shift_char_trunc(self, c, shift, overflow_checks) ==
    IF is_ascii_alphabetic(c)
    THEN LET base == IF is_ascii_uppercase(c) THEN 65 ELSE 97
             offset == c - base
             sum == i32_add(offset, shift, overflow_checks)
             v == sum.val
             shifted == IF v >= 0 THEN v % 26 ELSE -((-v) % 26)
         IN  IF sum.panic THEN [panic |-> TRUE, val |-> 0]
             ELSE [panic |-> FALSE, val |-> base + shifted]
    ELSE [panic |-> FALSE, val |-> c]

Caesar_shift_char(self, c, shift, overflow_checks) ==
    IF is_ascii_alphabetic(c)
    THEN LET base == IF is_ascii_uppercase(c) THEN 65 ELSE 97
             offset == c - base
             sum == i32_add(offset, shift, overflow_checks)
             shifted == rem_euclid(sum.val, 26)
         IN  IF sum.panic THEN [panic |-> TRUE, val |-> 0]
             ELSE [panic |-> FALSE, val |-> base + shifted]
    ELSE [panic |-> FALSE, val |-> c]

Caesar_encrypt(self, s, overflow_checks) ==
    LET r == [i \in 1..Len(s) |->
                 Caesar_shift_char(self, s[i], self.shift, overflow_checks)]
    IN  IF \E i \in 1..Len(s) : r[i].panic THEN Panic
        ELSE Ok([i \in 1..Len(s) |-> r[i].val])

\* `-self.shift` is evaluated for every char, before shift_char is called
Caesar_decrypt(self, s, overflow_checks) ==
    LET neg == i32_neg(self.shift, overflow_checks)
        r == [i \in 1..Len(s) |->
                 Caesar_shift_char(self, s[i], neg.val, overflow_checks)]
    IN  IF Len(s) > 0 /\ neg.panic THEN Panic
        ELSE IF \E i \in 1..Len(s) : r[i].panic THEN Panic
        ELSE Ok([i \in 1..Len(s) |-> r[i].val])

\* "XYZ" and "DEF"
CaesarExamples == {<<88, 89, 90>>, <<68, 69, 70>>}
CaesarTexts == Texts \cup CaesarExamples

\* shifts of an ordinary size
MaxShift == 1000
OrdinaryShifts == (-MaxShift)..MaxShift
\* shifts over the whole of i32: the ones at both ends, and a few others
EdgeWidth == 26
I32Shifts == {I32_MIN + k : k \in 0..EdgeWidth} \cup {I32_MAX - k : k \in 0..EdgeWidth}
                \cup ((-EdgeWidth)..EdgeWidth)

----------------------------------------------------------------------------
(* atbash.rs *)

Atbash_new == [kind |-> "Atbash"]

\* the same with 26 in place of 25
Atbash_transform_char_off_by_one(c) ==
    IF is_ascii_alphabetic(c)
    THEN LET base == IF is_ascii_uppercase(c) THEN 65 ELSE 97
             offset == c - base
         IN  base + (26 - offset)
    ELSE c

Atbash_transform_char(c) ==
    IF is_ascii_alphabetic(c)
    THEN LET base == IF is_ascii_uppercase(c) THEN 65 ELSE 97
             offset == c - base
         IN  base + (25 - offset)
    ELSE c

Atbash_encrypt(self, s) == [i \in 1..Len(s) |-> Atbash_transform_char(s[i])]

Atbash_decrypt(self, s) == Atbash_encrypt(self, s)

----------------------------------------------------------------------------
(* vigenere.rs *)

\* char::to_uppercase on the chars below U+0100: sharp s becomes "SS",
\* micro sign and y-diaeresis leave Latin-1
char_to_uppercase(c) ==
    IF is_ascii_lowercase(c) THEN <<c - 32>>
    ELSE IF c = 223 THEN <<83, 83>>
    ELSE IF c = 181 THEN <<924>>
    ELSE IF c = 255 THEN <<376>>
    ELSE IF c \in 224..254 /\ c # 247 THEN <<c - 32>>
    ELSE <<c>>

RECURSIVE to_uppercase(_)
to_uppercase(s) ==
    IF s = <<>> THEN <<>> ELSE char_to_uppercase(Head(s)) \o to_uppercase(Tail(s))

RECURSIVE filter_alphabetic(_)
filter_alphabetic(s) ==
    IF s = <<>> THEN <<>>
    ELSE IF is_ascii_alphabetic(Head(s)) THEN <<Head(s)>> \o filter_alphabetic(Tail(s))
    ELSE filter_alphabetic(Tail(s))

Vigenere_new(key) ==
    LET letters == filter_alphabetic(to_uppercase(key))
    IN  [kind |-> "Vigenere", key |-> [i \in 1..Len(letters) |-> letters[i] - 65]]

RECURSIVE Vigenere_map_add_only(_, _, _, _)
\* the same with the decrypt flag ignored: the key is always added
Vigenere_map_add_only(self, s, key_index, decrypt) ==
    IF s = <<>> THEN <<>>
    ELSE LET c == Head(s)
         IN  IF is_ascii_alphabetic(c)
             THEN LET base == IF is_ascii_uppercase(c) THEN 65 ELSE 97
                      offset == c - base
                      key_shift == self.key[(key_index % Len(self.key)) + 1]
                      shifted == rem_euclid(offset + key_shift, 26)
                  IN  <<base + shifted>>
                          \o Vigenere_map_add_only(self, Tail(s), key_index + 1, decrypt)
             ELSE <<c>> \o Vigenere_map_add_only(self, Tail(s), key_index, decrypt)

RECURSIVE Vigenere_map(_, _, _, _)
\* the closure of transform run over the chars from left to right, with
\* key_index the mutable counter it captures
Vigenere_map(self, s, key_index, decrypt) ==
    IF s = <<>> THEN <<>>
    ELSE LET c == Head(s)
         IN  IF is_ascii_alphabetic(c)
             THEN LET base == IF is_ascii_uppercase(c) THEN 65 ELSE 97
                      offset == c - base
                      key_shift == self.key[(key_index % Len(self.key)) + 1]
                      shifted == IF decrypt
                                 THEN rem_euclid(offset - key_shift, 26)
                                 ELSE rem_euclid(offset + key_shift, 26)
                  IN  <<base + shifted>>
                          \o Vigenere_map(self, Tail(s), key_index + 1, decrypt)
             ELSE <<c>> \o Vigenere_map(self, Tail(s), key_index, decrypt)

\* the same with the key cursor starting one place on
Vigenere_transform_cursor_at_one(self, s, decrypt) ==
    IF self.key = <<>> THEN s ELSE Vigenere_map(self, s, 1, decrypt)

Vigenere_transform(self, s, decrypt) ==
    IF self.key = <<>> THEN s ELSE Vigenere_map(self, s, 0, decrypt)

Vigenere_encrypt(self, s) == Vigenere_transform(self, s, FALSE)

Vigenere_decrypt(self, s) == Vigenere_transform(self, s, TRUE)

\* 'k', 'E', 'Z', '1', sharp s
KeyChars == {107, 69, 90, 49, 223}
VigenereKeys == SeqsUpTo(KeyChars, MaxKeyLen)

----------------------------------------------------------------------------
(* xor.rs *)

\* the UTF-8 encoding of one char
utf8(c) ==
    IF c < 128 THEN <<c>>
    ELSE IF c < 2048 THEN <<192 + (c \div 64), 128 + (c % 64)>>
    ELSE IF c < 65536
    THEN <<224 + (c \div 4096), 128 + ((c \div 64) % 64), 128 + (c % 64)>>
    ELSE <<240 + (c \div 262144), 128 + ((c \div 4096) % 64),
           128 + ((c \div 64) % 64), 128 + (c % 64)>>

RECURSIVE bytes(_)
\* str::bytes / str::as_bytes
bytes(s) == IF s = <<>> THEN <<>> ELSE utf8(Head(s)) \o bytes(Tail(s))

RECURSIVE bitxor(_, _, _)
\* a ^ b on the low n bits
bitxor(a, b, n) ==
    IF n = 0 THEN 0
    ELSE (((a % 2) + (b % 2)) % 2) + 2 * bitxor(a \div 2, b \div 2, n - 1)

Xor_new(key) == [kind |-> "Xor", key |-> key]

Xor_with_str_key(key) == Xor_new(bytes(key))

\* each byte b ^ key_byte becomes the char with that code point
Xor_transform(self, s) ==
    IF self.key = <<>> THEN s
    ELSE LET bs == bytes(s)
         IN  [i \in 1..Len(bs) |->
                 bitxor(bs[i], self.key[((i - 1) % Len(self.key)) + 1], 8)]

Xor_encrypt(self, s) == Xor_transform(self, s)

Xor_decrypt(self, s) == Xor_transform(self, s)

\* the same with the key never moving past its first byte
Xor_transform_bytes_first_key(self, bs) ==
    IF self.key = <<>> THEN bs
    ELSE [i \in 1..Len(bs) |-> bitxor(bs[i], self.key[1], 8)]

\* bytes in, bytes out
Xor_transform_bytes(self, bs) ==
    IF self.key = <<>> THEN bs
    ELSE [i \in 1..Len(bs) |->
             bitxor(bs[i], self.key[((i - 1) % Len(self.key)) + 1], 8)]

\* 0x00, 0x0F, 'A', 0xF0, 0xFF
DataBytes == {0, 15, 65, 240, 255}
ByteTexts == SeqsUpTo(DataBytes, MaxLen)

\* 0x01, 0x20, 'K', 0x80, 0xFF
KeyBytes == {1, 32, 75, 128, 255}
XorKeys == SeqsUpTo(KeyBytes, MaxKeyLen)
\* "KEY", "k", the empty key, and a key with a two-byte char
XorStrKeys == {<<75, 69, 89>>, <<107>>, <<>>, <<233>>}

----------------------------------------------------------------------------
(* magic_square.rs *)

Planets == {"Saturn", "Jupiter", "Mars", "Sun", "Venus", "Mercury", "Moon"}

Planet_size(planet) ==
    CASE planet = "Saturn" -> 3
      [] planet = "Jupiter" -> 4
      [] planet = "Mars" -> 5
      [] planet = "Sun" -> 6
      [] planet = "Venus" -> 7
      [] planet = "Mercury" -> 8
      [] planet = "Moon" -> 9

Planet_magic_constant(planet) ==
    LET n == Planet_size(planet)
    IN  (n * (n * n + 1)) \div 2

\* the Saturn square with the last two cells of its last row exchanged
saturn_square_swapped ==
    <<<<2, 7, 6>>,
      <<9, 5, 1>>,
      <<4, 8, 3>>>>

saturn_square ==
    <<<<2, 7, 6>>,
      <<9, 5, 1>>,
      <<4, 3, 8>>>>

jupiter_square ==
    <<<<4, 14, 15, 1>>,
      <<9, 7, 6, 12>>,
      <<5, 11, 10, 8>>,
      <<16, 2, 3, 13>>>>

mars_square ==
    <<<<11, 24, 7, 20, 3>>,
      <<4, 12, 25, 8, 16>>,
      <<17, 5, 13, 21, 9>>,
      <<10, 18, 1, 14, 22>>,
      <<23, 6, 19, 2, 15>>>>

sun_square ==
    <<<<6, 32, 3, 34, 35, 1>>,
      <<7, 11, 27, 28, 8, 30>>,
      <<19, 14, 16, 15, 23, 24>>,
      <<18, 20, 22, 21, 17, 13>>,
      <<25, 29, 10, 9, 26, 12>>,
      <<36, 5, 33, 4, 2, 31>>>>

venus_square ==
    <<<<22, 47, 16, 41, 10, 35, 4>>,
      <<5, 23, 48, 17, 42, 11, 29>>,
      <<30, 6, 24, 49, 18, 36, 12>>,
      <<13, 31, 7, 25, 43, 19, 37>>,
      <<38, 14, 32, 1, 26, 44, 20>>,
      <<21, 39, 8, 33, 2, 27, 45>>,
      <<46, 15, 40, 9, 34, 3, 28>>>>

mercury_square ==
    <<<<8, 58, 59, 5, 4, 62, 63, 1>>,
      <<49, 15, 14, 52, 53, 11, 10, 56>>,
      <<41, 23, 22, 44, 45, 19, 18, 48>>,
      <<32, 34, 35, 29, 28, 38, 39, 25>>,
      <<40, 26, 27, 37, 36, 30, 31, 33>>,
      <<17, 47, 46, 20, 21, 43, 42, 24>>,
      <<9, 55, 54, 12, 13, 51, 50, 16>>,
      <<64, 2, 3, 61, 60, 6, 7, 57>>>>

moon_square ==
    <<<<37, 78, 29, 70, 21, 62, 13, 54, 5>>,
      <<6, 38, 79, 30, 71, 22, 63, 14, 46>>,
      <<47, 7, 39, 80, 31, 72, 23, 55, 15>>,
      <<16, 48, 8, 40, 81, 32, 64, 24, 56>>,
      <<57, 17, 49, 9, 41, 73, 33, 65, 25>>,
      <<26, 58, 18, 50, 1, 42, 74, 34, 66>>,
      <<67, 27, 59, 10, 51, 2, 43, 75, 35>>,
      <<36, 68, 19, 60, 11, 52, 3, 44, 76>>,
      <<77, 28, 69, 20, 61, 12, 53, 4, 45>>>>

generate_square(planet) ==
    CASE planet = "Saturn" -> saturn_square
      [] planet = "Jupiter" -> jupiter_square
      [] planet = "Mars" -> mars_square
      [] planet = "Sun" -> sun_square
      [] planet = "Venus" -> venus_square
      [] planet = "Mercury" -> mercury_square
      [] planet = "Moon" -> moon_square

\* the separators start as " " and ","
MagicSquare_new(planet) ==
    [kind |-> "MagicSquare", square |-> generate_square(planet),
     size |-> Planet_size(planet), separator |-> <<32>>, coord_separator |-> <<44>>]

\* MagicSquare::saturn() .. MagicSquare::moon()
MagicSquare_of(planet) == MagicSquare_new(planet)

MagicSquare_with_separator(self, sep) == [self EXCEPT !.separator = sep]

MagicSquare_with_coord_separator(self, sep) == [self EXCEPT !.coord_separator = sep]

MagicSquare_max_value(self) == self.size * self.size

\* char::to_ascii_uppercase
to_ascii_uppercase(c) == IF is_ascii_lowercase(c) THEN c - 32 ELSE c

\* the first cell, row by row, that holds the value; rows and columns from 0
MagicSquare_find_position(self, value) ==
    LET n == self.size
        found == {i \in 0..((n * n) - 1) : self.square[(i \div n) + 1][(i % n) + 1] = value}
    IN  IF found = {} THEN [some |-> FALSE, row |-> 0, col |-> 0]
        ELSE LET i == CHOOSE j \in found : \A k \in found : j <= k
             IN  [some |-> TRUE, row |-> i \div n, col |-> i % n]

MagicSquare_letter_to_value(c) ==
    IF is_ascii_alphabetic(c) THEN [some |-> TRUE, val |-> (to_ascii_uppercase(c) - 65) + 1]
    ELSE [some |-> FALSE, val |-> 0]

MagicSquare_value_to_letter(value) ==
    IF value \in 1..26 THEN [some |-> TRUE, val |-> (65 + value) - 1]
    ELSE [some |-> FALSE, val |-> 0]

RECURSIVE to_string(_)
\* the decimal digits of n >= 0, as format!("{}", n) writes them
to_string(n) == IF n < 10 THEN <<48 + n>> ELSE to_string(n \div 10) \o <<48 + (n % 10)>>

\* the same with the column written before the row
MagicSquare_encode_letter_col_first(self, c) ==
    LET value == MagicSquare_letter_to_value(c)
        pos == MagicSquare_find_position(self, value.val)
    IN  IF ~value.some \/ value.val > MagicSquare_max_value(self) \/ ~pos.some
        THEN [some |-> FALSE, val |-> <<>>]
        ELSE [some |-> TRUE,
              val |-> to_string(pos.col + 1) \o self.coord_separator \o to_string(pos.row + 1)]

MagicSquare_encode_letter(self, c) ==
    LET value == MagicSquare_letter_to_value(c)
        pos == MagicSquare_find_position(self, value.val)
    IN  IF ~value.some \/ value.val > MagicSquare_max_value(self) \/ ~pos.some
        THEN [some |-> FALSE, val |-> <<>>]
        ELSE [some |-> TRUE,
              val |-> to_string(pos.row + 1) \o self.coord_separator \o to_string(pos.col + 1)]

\* str::contains(pat): the empty pattern is found in every string
contains(s, pat) ==
    \E i \in 1..(Len(s) + 1) :
        /\ i + Len(pat) <= Len(s) + 1
        /\ SubSeq(s, i, (i + Len(pat)) - 1) = pat

RECURSIVE split_at_matches(_, _, _)
\* str::split(pat) for a pattern that is not empty: cur is the part being
\* gathered, the matches are taken leftmost and do not overlap
split_at_matches(s, pat, cur) ==
    IF s = <<>> THEN <<cur>>
    ELSE IF Len(s) >= Len(pat) /\ SubSeq(s, 1, Len(pat)) = pat
    THEN <<cur>> \o split_at_matches(SubSeq(s, Len(pat) + 1, Len(s)), pat, <<>>)
    ELSE split_at_matches(Tail(s), pat, Append(cur, Head(s)))

\* str::split(pat); the empty pattern matches before and after every char
split(s, pat) ==
    IF pat = <<>>
    THEN <<<<>>>> \o [i \in 1..Len(s) |-> <<s[i]>>] \o <<<<>>>>
    ELSE split_at_matches(s, pat, <<>>)

RECURSIVE parse_digits(_, _)
\* the value of a run of ASCII digits after acc; a value above 1000 is
\* kept at 1000, past every size of square
parse_digits(s, acc) ==
    IF s = <<>> THEN acc
    ELSE LET v == (acc * 10) + (Head(s) - 48)
         IN  parse_digits(Tail(s), IF v > 1000 THEN 1000 ELSE v)

\* str::parse::<usize>: an optional '+', then one ASCII digit or more
parse_usize(s) ==
    LET ds == IF s # <<>> /\ Head(s) = 43 THEN Tail(s) ELSE s
    IN  IF ds = <<>> \/ \E i \in 1..Len(ds) : ~is_ascii_digit(ds[i])
        THEN [ok |-> FALSE, val |-> 0]
        ELSE [ok |-> TRUE, val |-> parse_digits(ds, 0)]

RECURSIVE MagicSquare_tokens(_, _)
\* the first loop of encrypt: one token per char of the input
MagicSquare_tokens(self, s) ==
    IF s = <<>> THEN <<>>
    ELSE LET c == Head(s)
             encoded == MagicSquare_encode_letter(self, c)
         IN  <<IF is_ascii_alphabetic(c) /\ encoded.some THEN encoded.val ELSE <<c>>>>
                 \o MagicSquare_tokens(self, Tail(s))

RECURSIVE MagicSquare_join(_, _, _)
\* the second loop of encrypt, from the i-th token on (i from 1)
MagicSquare_join(self, result, i) ==
    IF i > Len(result) THEN <<>>
    ELSE (IF i > 1 /\ contains(result[i], self.coord_separator)
               /\ contains(result[i - 1], self.coord_separator)
          THEN self.separator ELSE <<>>)
             \o result[i] \o MagicSquare_join(self, result, i + 1)

MagicSquare_encrypt(self, s) == MagicSquare_join(self, MagicSquare_tokens(self, s), 1)

\* what decrypt pushes for one part of the split input
MagicSquare_decode_part(self, part) ==
    IF ~contains(part, self.coord_separator) THEN part
    ELSE LET coords == split(part, self.coord_separator)
         IN  IF Len(coords) # 2 THEN part
             ELSE LET row == parse_usize(coords[1])
                      col == parse_usize(coords[2])
                  IN  IF ~(row.ok /\ col.ok) THEN part
                      ELSE IF ~(row.val >= 1 /\ row.val <= self.size
                                /\ col.val >= 1 /\ col.val <= self.size) THEN part
                      ELSE LET letter == MagicSquare_value_to_letter(
                                             self.square[row.val][col.val])
                           IN  IF letter.some THEN <<letter.val>> ELSE part

RECURSIVE MagicSquare_decode_parts(_, _)
MagicSquare_decode_parts(self, parts) ==
    IF parts = <<>> THEN <<>>
    ELSE MagicSquare_decode_part(self, Head(parts))
             \o MagicSquare_decode_parts(self, Tail(parts))

MagicSquare_decrypt(self, s) == MagicSquare_decode_parts(self, split(s, self.separator))

\* " ", "-", "", "; ", ",", "1"
Separators == {<<32>>, <<45>>, <<>>, <<59, 32>>, <<44>>, <<49>>}
\* ",", ".", "", ":"
CoordSeparators == {<<44>>, <<46>>, <<>>, <<58>>}

\* 'A', 'I', 'Z', ','
MagicSquareChars == {65, 73, 90, 44}
\* "HELLO", "A B"
MagicSquareExamples == {<<72, 69, 76, 76, 79>>, <<65, 32, 66>>}
MagicSquareTexts ==
    {<<c>> : c \in AllChars} \cup SeqsUpTo(MagicSquareChars, MaxLen)
        \cup MagicSquareExamples

----------------------------------------------------------------------------
(* polybius.rs *)

\* "ABCDEFGHIKLMNOPQRSTUVWXYZ"
StandardAlphabet == [i \in 1..25 |-> IF i <= 9 THEN 64 + i ELSE 65 + i]

standard_grid ==
    <<<<65, 66, 67, 68, 69>>,
      <<70, 71, 72, 73, 75>>,
      <<76, 77, 78, 79, 80>>,
      <<81, 82, 83, 84, 85>>,
      <<86, 87, 88, 89, 90>>>>

\* grid[i / 5][i % 5] = c for the i-th char, i from 0
Polybius_with_alphabet(alphabet) ==
    LET chars == alphabet
        grid == IF Len(chars) = 25
                THEN [row \in 1..5 |-> [col \in 1..5 |-> chars[(row - 1) * 5 + col]]]
                ELSE standard_grid
    IN  [kind |-> "Polybius", grid |-> grid, separator |-> <<>>]

Polybius_new == Polybius_with_alphabet(StandardAlphabet)

RECURSIVE with_key_loop(_, _, _)
\* the for loop of with_key over the chars still to come
with_key_loop(cs, seen, alphabet) ==
    IF cs = <<>> THEN alphabet
    ELSE LET c == Head(cs)
         IN  IF ~is_ascii_alphabetic(c) THEN with_key_loop(Tail(cs), seen, alphabet)
             ELSE LET normalized == IF c = 74 THEN 73 ELSE c
                      idx == normalized - 65
                  IN  IF idx \notin seen
                      THEN with_key_loop(Tail(cs), seen \cup {idx},
                                         Append(alphabet, normalized))
                      ELSE with_key_loop(Tail(cs), seen, alphabet)

Polybius_with_key(key) ==
    Polybius_with_alphabet(
        with_key_loop(to_uppercase(key) \o [i \in 1..26 |-> 64 + i], {}, <<>>))

Polybius_with_separator(self, sep) == [self EXCEPT !.separator = sep]

\* the alphabets handed to with_alphabet: the standard one with one char
\* replaced by 'A', 'J' or 'a'; the first n letters of A..Z; 25 times 'A'
ReplacementChars == {65, 74, 97}
CustomAlphabets ==
    {[StandardAlphabet EXCEPT ![i] = c] : i \in 1..25, c \in ReplacementChars}
        \cup {[i \in 1..n |-> 64 + i] : n \in 0..26}
        \cup {[i \in 1..25 |-> 65]}
\* 'k', 'E', 'J', '1', sharp s
PolybiusKeyChars == {107, 69, 74, 49, 223}
PolybiusKeys == SeqsUpTo(PolybiusKeyChars, MaxKeyLen)
\* "", " ", "-", ", ", "x", e-acute
PolybiusSeparators == {<<>>, <<32>>, <<45>>, <<44, 32>>, <<120>>, <<233>>}

is_ascii_alphanumeric(c) == is_ascii_alphabetic(c) \/ is_ascii_digit(c)

\* str::len / String::len: the length in bytes
str_len(s) == Len(bytes(s))

\* the first cell, row by row, that holds the char; rows and columns from 0
Polybius_find_position(self, c) ==
    LET upper == to_ascii_uppercase(c)
        target == IF upper = 74 THEN 73 ELSE upper
        found == {i \in 0..24 : self.grid[(i \div 5) + 1][(i % 5) + 1] = target}
    IN  IF found = {} THEN [some |-> FALSE, row |-> 0, col |-> 0]
        ELSE LET i == CHOOSE j \in found : \A k \in found : j <= k
             IN  [some |-> TRUE, row |-> i \div 5, col |-> i % 5]

\* the same with the column written before the row
Polybius_encode_char_col_first(self, c) ==
    LET pos == Polybius_find_position(self, c)
    IN  IF pos.some THEN [some |-> TRUE, val |-> <<48 + pos.col + 1, 48 + pos.row + 1>>]
        ELSE [some |-> FALSE, val |-> <<>>]

\* format!("{}{}", row + 1, col + 1)
Polybius_encode_char(self, c) ==
    LET pos == Polybius_find_position(self, c)
    IN  IF pos.some THEN [some |-> TRUE, val |-> <<48 + pos.row + 1, 48 + pos.col + 1>>]
        ELSE [some |-> FALSE, val |-> <<>>]

RECURSIVE Polybius_encoded(_, _)
\* the filter_map of encrypt: the tokens, one per char that yields one
Polybius_encoded(self, s) ==
    IF s = <<>> THEN <<>>
    ELSE LET c == Head(s)
             tok == IF is_ascii_alphabetic(c) THEN Polybius_encode_char(self, c)
                    ELSE [some |-> TRUE, val |-> <<c>>]
         IN  (IF tok.some THEN <<tok.val>> ELSE <<>>) \o Polybius_encoded(self, Tail(s))

RECURSIVE Polybius_join(_, _, _)
\* the loop of encrypt over encoded, from the i-th token on (i from 1)
Polybius_join(self, encoded, i) ==
    IF i > Len(encoded) THEN <<>>
    ELSE (IF i > 1 /\ str_len(encoded[i]) = 2 /\ str_len(encoded[i - 1]) = 2
          THEN self.separator ELSE <<>>)
             \o encoded[i] \o Polybius_join(self, encoded, i + 1)

RECURSIVE Concat(_)
\* [String]::join("")
Concat(ss) == IF ss = <<>> THEN <<>> ELSE Head(ss) \o Concat(Tail(ss))

Polybius_encrypt(self, s) ==
    LET encoded == Polybius_encoded(self, s)
    IN  IF self.separator = <<>> THEN Concat(encoded)
        ELSE Polybius_join(self, encoded, 1)

RECURSIVE filter_cleaned(_)
\* the filter of decrypt: ASCII digits, and what is neither ASCII
\* alphanumeric nor a space
filter_cleaned(s) ==
    IF s = <<>> THEN <<>>
    ELSE LET c == Head(s)
         IN  (IF is_ascii_digit(c) \/ (~is_ascii_alphanumeric(c) /\ c # 32)
              THEN <<c>> ELSE <<>>) \o filter_cleaned(Tail(s))

RECURSIVE filter_digits(_)
\* filter_map(|c| c.to_digit(10)): the values of the ASCII digits
filter_digits(s) ==
    IF s = <<>> THEN <<>>
    ELSE (IF is_ascii_digit(Head(s)) THEN <<Head(s) - 48>> ELSE <<>>)
             \o filter_digits(Tail(s))

\* x - y in u8: a build with overflow checks panics below 0, a build
\* without them wraps around modulo 2^8
u8_sub(x, y, overflow_checks) ==
    IF x < y
    THEN IF overflow_checks THEN [panic |-> TRUE, val |-> 0]
         ELSE [panic |-> FALSE, val |-> x - y + 256]
    ELSE [panic |-> FALSE, val |-> x - y]

RECURSIVE match_separator(_, _, _)
\* the inner while loop of decrypt: matched grows while the next char
\* continues the separator; gives matched and the chars left
match_separator(self, matched, rest) ==
    IF str_len(matched) < str_len(self.separator)
         /\ rest # <<>>
         /\ self.separator[Len(matched) + 1] = Head(rest)
    THEN match_separator(self, Append(matched, Head(rest)), Tail(rest))
    ELSE <<matched, rest>>

RECURSIVE Polybius_decrypt_loop(_, _, _, _, _, _)
\* the while loop of decrypt over the chars left; digit_idx counts from 0
Polybius_decrypt_loop(self, rest, digits, digit_idx, result, overflow_checks) ==
    IF rest = <<>> THEN Ok(result)
    ELSE LET c == Head(rest)
         IN  IF is_ascii_digit(c)
             THEN IF digit_idx + 1 < Len(digits)
                  THEN LET row == u8_sub(digits[digit_idx + 1], 1, overflow_checks)
                           col == u8_sub(digits[digit_idx + 2], 1, overflow_checks)
                       IN  IF row.panic \/ col.panic THEN Panic
                           ELSE Polybius_decrypt_loop(self, Tail(rest), digits,
                                    digit_idx + 2,
                                    IF row.val < 5 /\ col.val < 5
                                    THEN Append(result, self.grid[row.val + 1][col.val + 1])
                                    ELSE result,
                                    overflow_checks)
                  ELSE Polybius_decrypt_loop(self, Tail(rest), digits, digit_idx,
                                             result, overflow_checks)
             ELSE IF self.separator # <<>> /\ self.separator[1] = c
             THEN LET m == match_separator(self, <<c>>, Tail(rest))
                  IN  Polybius_decrypt_loop(self, m[2], digits, digit_idx,
                          IF m[1] # self.separator THEN result \o m[1] ELSE result,
                          overflow_checks)
             ELSE Polybius_decrypt_loop(self, Tail(rest), digits, digit_idx,
                                        Append(result, c), overflow_checks)

Polybius_decrypt(self, s, overflow_checks) ==
    LET cleaned == filter_cleaned(s)
        digits == filter_digits(cleaned)
    IN  Polybius_decrypt_loop(self, s, digits, 0, <<>>, overflow_checks)

\* 'B', 'j', ',', e-acute
PolybiusChars == {66, 106, 44, 233}
\* "HELLO", "A,B.C", "B5B"
PolybiusExamples == {<<72, 69, 76, 76, 79>>, <<65, 44, 66, 46, 67>>, <<66, 53, 66>>}
PolybiusTexts ==
    {<<c>> : c \in AllChars} \cup SeqsUpTo(PolybiusChars, MaxLen) \cup PolybiusExamples

\* the texts handed to decrypt as they are: '0', '2', '6', '-', 'x'
MaxCode == 4
CodeChars == {48, 50, 54, 45, 120}
CodeTexts == SeqsUpTo(CodeChars, MaxCode)

----------------------------------------------------------------------------
(* The driver *)

Init ==
    /\ pc = "start"
    /\ args = <<>>
    /\ cipher = None
    /\ input = <<>>
    /\ ct = <<>>
    /\ dt = <<>>
    /\ panicked = FALSE

Built(c, a) ==
    /\ cipher' = c
    /\ args' = a
    /\ pc' = "built"
    /\ UNCHANGED <<input, ct, dt, panicked>>

Encrypted(s, r) ==
    /\ input' = s
    /\ ct' = r.out
    /\ panicked' = r.panic
    /\ pc' = IF r.panic THEN "panicked" ELSE "encrypted"
    /\ UNCHANGED <<args, cipher, dt>>

Decrypted(r) ==
    /\ dt' = r.out
    /\ panicked' = r.panic
    /\ pc' = IF r.panic THEN "panicked" ELSE "decrypted"
    /\ UNCHANGED <<args, cipher, input, ct>>

AffineNew ==
    /\ pc = "start"
    /\ \E a \in AffineAs, b \in AffineBs :
           Built(Affine_new(a, b), <<"Affine::new", a, b>>)

AffineCaesar ==
    /\ pc = "start"
    /\ \E shift \in CaesarShiftsOfAffine :
           Built(Affine_caesar(shift), <<"Affine::caesar", shift>>)

AffineRot13 ==
    /\ pc = "start"
    /\ Built(Affine_rot13, <<"Affine::rot13">>)

AffineEncrypt ==
    /\ pc = "built"
    /\ cipher.kind = "Affine"
    /\ \E s \in Texts : Encrypted(s, Ok(Affine_encrypt(cipher, s)))

AffineDecrypt ==
    /\ pc = "encrypted"
    /\ cipher.kind = "Affine"
    /\ Decrypted(Ok(Affine_decrypt(cipher, ct)))

NextAffine ==
    \/ AffineNew
    \/ AffineCaesar
    \/ AffineRot13
    \/ AffineEncrypt
    \/ AffineDecrypt

SpecAffine == Init /\ [][NextAffine]_vars

CaesarNew(Shifts) ==
    /\ pc = "start"
    /\ \E shift \in Shifts : Built(Caesar_new(shift), <<"Caesar::new", shift>>)

CaesarRot13 ==
    /\ pc = "start"
    /\ Built(Caesar_rot13, <<"Caesar::rot13">>)

CaesarEncrypt ==
    /\ pc = "built"
    /\ cipher.kind = "Caesar"
    /\ \E s \in CaesarTexts, overflow_checks \in BOOLEAN :
           Encrypted(s, Caesar_encrypt(cipher, s, overflow_checks))

CaesarDecrypt ==
    /\ pc = "encrypted"
    /\ cipher.kind = "Caesar"
    /\ \E overflow_checks \in BOOLEAN :
           Decrypted(Caesar_decrypt(cipher, ct, overflow_checks))

AtbashNew ==
    /\ pc = "start"
    /\ Built(Atbash_new, <<"Atbash::new">>)

AtbashEncrypt ==
    /\ pc = "built"
    /\ cipher.kind = "Atbash"
    /\ \E s \in Texts : Encrypted(s, Ok(Atbash_encrypt(cipher, s)))

AtbashDecrypt ==
    /\ pc = "encrypted"
    /\ cipher.kind = "Atbash"
    /\ Decrypted(Ok(Atbash_decrypt(cipher, ct)))

VigenereNew ==
    /\ pc = "start"
    /\ \E key \in VigenereKeys : Built(Vigenere_new(key), <<"Vigenere::new", key>>)

VigenereEncrypt ==
    /\ pc = "built"
    /\ cipher.kind = "Vigenere"
    /\ \E s \in Texts : Encrypted(s, Ok(Vigenere_encrypt(cipher, s)))

VigenereDecrypt ==
    /\ pc = "encrypted"
    /\ cipher.kind = "Vigenere"
    /\ Decrypted(Ok(Vigenere_decrypt(cipher, ct)))

XorNew ==
    /\ pc = "start"
    /\ \E key \in XorKeys : Built(Xor_new(key), <<"Xor::new", key>>)

XorWithStrKey ==
    /\ pc = "start"
    /\ \E key \in XorStrKeys :
           Built(Xor_with_str_key(key), <<"Xor::with_str_key", key>>)

XorEncrypt ==
    /\ pc = "built"
    /\ cipher.kind = "Xor"
    /\ \E s \in Texts : Encrypted(s, Ok(Xor_encrypt(cipher, s)))

XorDecrypt ==
    /\ pc = "encrypted"
    /\ cipher.kind = "Xor"
    /\ Decrypted(Ok(Xor_decrypt(cipher, ct)))

NextCaesar ==
    \/ CaesarNew(OrdinaryShifts)
    \/ CaesarRot13
    \/ CaesarEncrypt
    \/ CaesarDecrypt

SpecCaesar == Init /\ [][NextCaesar]_vars

NextCaesarI32 ==
    \/ CaesarNew(I32Shifts)
    \/ CaesarRot13
    \/ CaesarEncrypt
    \/ CaesarDecrypt

SpecCaesarI32 == Init /\ [][NextCaesarI32]_vars

NextAtbash ==
    \/ AtbashNew
    \/ AtbashEncrypt
    \/ AtbashDecrypt

SpecAtbash == Init /\ [][NextAtbash]_vars

NextVigenere ==
    \/ VigenereNew
    \/ VigenereEncrypt
    \/ VigenereDecrypt

SpecVigenere == Init /\ [][NextVigenere]_vars

XorTransformBytes ==
    /\ pc = "built"
    /\ cipher.kind = "Xor"
    /\ \E x \in ByteTexts :
           /\ input' = x
           /\ ct' = Xor_transform_bytes(cipher, x)
           /\ pc' = "transformed"
           /\ UNCHANGED <<args, cipher, dt, panicked>>

\* transform_bytes on what transform_bytes returned
XorTransformBytesAgain ==
    /\ pc = "transformed"
    /\ cipher.kind = "Xor"
    /\ dt' = Xor_transform_bytes(cipher, ct)
    /\ pc' = "restored"
    /\ UNCHANGED <<args, cipher, input, ct, panicked>>

NextXorBytes ==
    \/ XorNew
    \/ XorWithStrKey
    \/ XorTransformBytes
    \/ XorTransformBytesAgain

SpecXorBytes == Init /\ [][NextXorBytes]_vars

NextXor ==
    \/ XorNew
    \/ XorWithStrKey
    \/ XorEncrypt
    \/ XorDecrypt

SpecXor == Init /\ [][NextXor]_vars

\* the four alphabetic ciphers together, each over all of its keys
NextAlpha ==
    \/ CaesarNew(I32Shifts)
    \/ CaesarRot13
    \/ CaesarEncrypt
    \/ CaesarDecrypt
    \/ AffineNew
    \/ AffineCaesar
    \/ AffineRot13
    \/ AffineEncrypt
    \/ AffineDecrypt
    \/ VigenereNew
    \/ VigenereEncrypt
    \/ VigenereDecrypt
    \/ AtbashNew
    \/ AtbashEncrypt
    \/ AtbashDecrypt

SpecAlpha == Init /\ [][NextAlpha]_vars

MagicSquareNew ==
    /\ pc = "start"
    /\ \E planet \in Planets :
           Built(MagicSquare_new(planet), <<"MagicSquare::new", planet>>)

\* MagicSquare::saturn() .. MagicSquare::moon()
MagicSquareOf ==
    /\ pc = "start"
    /\ \E planet \in Planets :
           Built(MagicSquare_of(planet), <<"MagicSquare::of", planet>>)

Rebuilt(c) ==
    /\ pc = "built"
    /\ cipher' = c
    /\ UNCHANGED <<pc, args, input, ct, dt, panicked>>

MagicSquareWithSeparator ==
    /\ cipher.kind = "MagicSquare"
    /\ \E sep \in Separators : Rebuilt(MagicSquare_with_separator(cipher, sep))

MagicSquareWithCoordSeparator ==
    /\ cipher.kind = "MagicSquare"
    /\ \E sep \in CoordSeparators :
           Rebuilt(MagicSquare_with_coord_separator(cipher, sep))

MagicSquareEncrypt ==
    /\ pc = "built"
    /\ cipher.kind = "MagicSquare"
    /\ \E s \in MagicSquareTexts : Encrypted(s, Ok(MagicSquare_encrypt(cipher, s)))

MagicSquareDecrypt ==
    /\ pc = "encrypted"
    /\ cipher.kind = "MagicSquare"
    /\ Decrypted(Ok(MagicSquare_decrypt(cipher, ct)))

NextMagicSquare ==
    \/ MagicSquareNew
    \/ MagicSquareOf
    \/ MagicSquareWithSeparator
    \/ MagicSquareWithCoordSeparator
    \/ MagicSquareEncrypt
    \/ MagicSquareDecrypt

SpecMagicSquare == Init /\ [][NextMagicSquare]_vars

PolybiusNew ==
    /\ pc = "start"
    /\ Built(Polybius_new, <<"Polybius::new">>)

PolybiusWithAlphabet ==
    /\ pc = "start"
    /\ \E alphabet \in CustomAlphabets :
           Built(Polybius_with_alphabet(alphabet), <<"Polybius::with_alphabet", alphabet>>)

PolybiusWithKey ==
    /\ pc = "start"
    /\ \E key \in PolybiusKeys :
           Built(Polybius_with_key(key), <<"Polybius::with_key", key>>)

PolybiusWithSeparator ==
    /\ cipher.kind = "Polybius"
    /\ \E sep \in PolybiusSeparators : Rebuilt(Polybius_with_separator(cipher, sep))

PolybiusEncrypt ==
    /\ pc = "built"
    /\ cipher.kind = "Polybius"
    /\ \E s \in PolybiusTexts : Encrypted(s, Ok(Polybius_encrypt(cipher, s)))

PolybiusDecrypt ==
    /\ pc = "encrypted"
    /\ cipher.kind = "Polybius"
    /\ \E overflow_checks \in BOOLEAN :
           Decrypted(Polybius_decrypt(cipher, ct, overflow_checks))

\* decrypt called on a text that encrypt did not make
PolybiusDecode ==
    /\ pc = "built"
    /\ cipher.kind = "Polybius"
    /\ \E s \in CodeTexts, overflow_checks \in BOOLEAN :
           LET r == Polybius_decrypt(cipher, s, overflow_checks)
           IN  /\ ct' = s
               /\ dt' = r.out
               /\ panicked' = r.panic
               /\ pc' = IF r.panic THEN "panicked" ELSE "decoded"
               /\ UNCHANGED <<args, cipher, input>>

NextPolybius ==
    \/ PolybiusNew
    \/ PolybiusWithAlphabet
    \/ PolybiusWithKey
    \/ PolybiusWithSeparator
    \/ PolybiusEncrypt
    \/ PolybiusDecrypt

SpecPolybius == Init /\ [][NextPolybius]_vars

\* the standard grid and the keyed grids only
NextPolybiusKeyed ==
    \/ PolybiusNew
    \/ PolybiusWithKey
    \/ PolybiusWithSeparator
    \/ PolybiusEncrypt
    \/ PolybiusDecrypt

SpecPolybiusKeyed == Init /\ [][NextPolybiusKeyed]_vars

NextPolybiusDecode ==
    \/ PolybiusNew
    \/ PolybiusWithAlphabet
    \/ PolybiusWithKey
    \/ PolybiusWithSeparator
    \/ PolybiusDecode

SpecPolybiusDecode == Init /\ [][NextPolybiusDecode]_vars

----------------------------------------------------------------------------
(* What the claims are stated with *)

Ran == pc \in {"encrypted", "decrypted"}

Base(c) == IF is_ascii_uppercase(c) THEN 65 ELSE 97
Offset(c) == c - Base(c)

\* the greatest common divisor of x >= 0 and y > 0
Gcd(x, y) ==
    LET D == {d \in 1..y : x % d = 0 /\ y % d = 0}
    IN  CHOOSE d \in D : \A e \in D : e <= d

CoprimeAs == {1, 3, 5, 7, 9, 11, 15, 17, 19, 21, 23, 25}

\* c moved by n places of the alphabet, n of any size, in exact arithmetic
ExactShift(c, n) ==
    IF is_ascii_alphabetic(c) THEN Base(c) + ((Offset(c) + (n % 26)) % 26) ELSE c

ExactUnshift(c, n) ==
    IF is_ascii_alphabetic(c) THEN Base(c) + ((Offset(c) - (n % 26)) % 26) ELSE c

\* d is of the same class as c: upper case, lower case, or the same char
SameClass(c, d) ==
    /\ is_ascii_uppercase(d) <=> is_ascii_uppercase(c)
    /\ is_ascii_lowercase(d) <=> is_ascii_lowercase(c)
    /\ ~is_ascii_alphabetic(c) => d = c

\* the number of ASCII letters among the first n chars of s
LettersBefore(s, n) == Cardinality({j \in 1..n : is_ascii_alphabetic(s[j])})

----------------------------------------------------------------------------
(* The claims *)

\* C1: Affine::new(a, b) returns None exactly when gcd(a mod 26, 26) # 1,
\* for every a (0, negative, above 25, the ends of i32) and every b; among
\* 0..25 it accepts exactly the 12 values of CoprimeAs; b plays no part.
C1_AffineNewNoneIffNotCoprime ==
    (pc = "built" /\ args[1] = "Affine::new") =>
        LET a == args[2]
        IN  /\ (cipher.kind = "None") <=> (Gcd(a % 26, 26) # 1)
            /\ a \in 0..25 => ((cipher.kind = "Affine") <=> (a \in CoprimeAs))
            /\ Cardinality(CoprimeAs) = 12
            /\ \A b \in AffineBs :
                   (Affine_new(a, b).kind = "None") <=> (cipher.kind = "None")

\* a = 52 (above 25, a multiple of 26) with b = -1 is refused
C1_Witness ==
    /\ pc = "built"
    /\ args[1] = "Affine::new"
    /\ args[2] = 52
    /\ args[3] = -1
    /\ cipher.kind = "None"

\* C2: for every accepted Affine cipher, and for Affine::caesar and
\* Affine::rot13, a * a_inv = 1 (mod 26), encrypt sends the letter offset x
\* to (a*x + b) mod 26, and decrypt(encrypt(s)) = s.
C2_AffineRoundTrip ==
    cipher.kind = "Affine" =>
        /\ ~panicked
        /\ (cipher.a * cipher.a_inv) % 26 = 1
        /\ Ran =>
               LET a == IF args[1] = "Affine::new" THEN args[2] % 26 ELSE 1
                   b == IF args[1] = "Affine::new" THEN args[3] % 26
                        ELSE IF args[1] = "Affine::caesar" THEN args[2] % 26
                        ELSE 13
               IN  /\ Len(ct) = Len(input)
                   /\ \A i \in 1..Len(input) :
                          IF is_ascii_alphabetic(input[i])
                          THEN ct[i] = Base(input[i]) + ((a * Offset(input[i]) + b) % 26)
                          ELSE ct[i] = input[i]
        /\ pc = "decrypted" => dt = input

\* Affine::new(-1, -1) has taken "By5" to another text and back
C2_Witness ==
    /\ pc = "decrypted"
    /\ args[1] = "Affine::new"
    /\ args[2] = -1
    /\ args[3] = -1
    /\ input = <<66, 121, 53>>
    /\ ct # input
    /\ dt = input

\* C3: for every Xor cipher and every text s, decrypt(encrypt(s)) = s.
C3_XorTextRoundTrip ==
    (pc = "decrypted" /\ cipher.kind = "Xor") => dt = input

\* C4: for every Vigenere key text and every text s, decrypt(encrypt(s)) = s;
\* decrypt takes from the k-th letter the key letter that encrypt added to it.
C4_VigenereRoundTrip ==
    (pc = "decrypted" /\ cipher.kind = "Vigenere") =>
        /\ ~panicked
        /\ dt = input
        /\ Len(ct) = Len(input)
        /\ cipher.key # <<>> =>
               \A i \in 1..Len(input) :
                   is_ascii_alphabetic(input[i]) =>
                       LET k == LettersBefore(input, i - 1)
                           key_shift == cipher.key[(k % Len(cipher.key)) + 1]
                       IN  /\ ct[i] = ExactShift(input[i], key_shift)
                           /\ dt[i] = ExactUnshift(ct[i], key_shift)

\* the key "k1" (one letter, one char that is no letter) has taken "B5y" to
\* another text and back
C4_Witness ==
    /\ pc = "decrypted"
    /\ cipher.kind = "Vigenere"
    /\ args[2] = <<107, 49>>
    /\ input = <<66, 53, 121>>
    /\ ct # input
    /\ dt = input

\* C5: for every Caesar cipher with a shift of ordinary size, negative and
\* beyond 26 included, encrypt moves each letter offset to (offset + shift)
\* mod 26 and decrypt(encrypt(s)) = s; Caesar(3) takes XYZ to ABC and
\* Caesar(-3) takes DEF to ABC.
C5_CaesarOrdinaryRoundTrip ==
    cipher.kind = "Caesar" =>
        /\ ~panicked
        /\ Ran =>
               /\ Len(ct) = Len(input)
               /\ \A i \in 1..Len(input) : ct[i] = ExactShift(input[i], cipher.shift)
               /\ (cipher.shift = 3 /\ input = <<88, 89, 90>>) => ct = <<65, 66, 67>>
               /\ (cipher.shift = -3 /\ input = <<68, 69, 70>>) => ct = <<65, 66, 67>>
        /\ pc = "decrypted" => dt = input

\* Caesar(-29) has taken "By5" to another text and back
C5_Witness ==
    /\ pc = "decrypted"
    /\ cipher.kind = "Caesar"
    /\ cipher.shift = -29
    /\ input = <<66, 121, 53>>
    /\ ct = <<89, 118, 53>>
    /\ dt = input

\* C6: for every i32 shift, the ends of i32 included, Caesar's encrypt and
\* decrypt run to completion without overflow, and each letter goes to the
\* exact (offset + shift) mod 26, or (offset - shift) mod 26 on decrypt.
C6_CaesarAnyShiftExact ==
    cipher.kind = "Caesar" =>
        /\ ~panicked
        /\ Ran =>
               /\ Len(ct) = Len(input)
               /\ \A i \in 1..Len(input) : ct[i] = ExactShift(input[i], cipher.shift)
        /\ pc = "decrypted" =>
               /\ Len(dt) = Len(ct)
               /\ \A i \in 1..Len(ct) : dt[i] = ExactUnshift(ct[i], cipher.shift)

\* C7: Atbash's decrypt is its encrypt, each letter at offset k goes to the
\* letter at offset 25 - k of the same case, and encrypting twice gives the
\* text back.
C7_AtbashSelfInverse ==
    cipher.kind = "Atbash" =>
        /\ ~panicked
        /\ Ran =>
               /\ Len(ct) = Len(input)
               /\ \A i \in 1..Len(input) :
                      IF is_ascii_alphabetic(input[i])
                      THEN ct[i] = Base(input[i]) + (25 - Offset(input[i]))
                      ELSE ct[i] = input[i]
               /\ Atbash_decrypt(cipher, input) = ct
               /\ Atbash_encrypt(cipher, ct) = input
        /\ pc = "decrypted" => (dt = Atbash_encrypt(cipher, ct) /\ dt = input)

\* Atbash has taken "By5" to "Yb5" and back
C7_Witness ==
    /\ pc = "decrypted"
    /\ cipher.kind = "Atbash"
    /\ input = <<66, 121, 53>>
    /\ ct = <<89, 98, 53>>
    /\ dt = input

\* C8: for Caesar, Affine, Vigenere and Atbash with any key, encrypt and
\* decrypt give an output as long as their input whose char at each place is
\* of the same class as the input's: upper case, lower case, or unchanged.
C8_ClassPreserved ==
    (cipher.kind \in {"Caesar", "Affine", "Vigenere", "Atbash"} /\ pc # "built") =>
        /\ ~panicked
        /\ Ran =>
               /\ Len(ct) = Len(input)
               /\ \A i \in 1..Len(input) : SameClass(input[i], ct[i])
        /\ pc = "decrypted" =>
               /\ Len(dt) = Len(ct)
               /\ \A i \in 1..Len(ct) : SameClass(ct[i], dt[i])

\* the same of the runs that did not panic
ClassPreservedUnlessPanicked == panicked \/ C8_ClassPreserved

RECURSIVE SumSeq(_)
SumSeq(s) == IF s = <<>> THEN 0 ELSE Head(s) + SumSeq(Tail(s))

\* the magic constants of the seven squares, Saturn to Moon
ExpectedConstant(planet) ==
    CASE planet = "Saturn" -> 15
      [] planet = "Jupiter" -> 34
      [] planet = "Mars" -> 65
      [] planet = "Sun" -> 111
      [] planet = "Venus" -> 175
      [] planet = "Mercury" -> 260
      [] planet = "Moon" -> 369

\* C9: for each planet the square of MagicSquare::new(planet) is N x N with
\* N = planet.size() in 3..9, holds each of 1..N*N exactly once, and every
\* row, every column and both main diagonals sum to planet.magic_constant()
\* = N*(N*N+1)/2; the builders leave the square as it is.
C9_MagicSquaresAreMagic ==
    cipher.kind = "MagicSquare" =>
        LET planet == args[2]
            N == Planet_size(planet)
            M == Planet_magic_constant(planet)
            sq == cipher.square
        IN  /\ N \in 3..9
            /\ cipher.size = N
            /\ 2 * M = N * (N * N + 1)
            /\ M = ExpectedConstant(planet)
            /\ Len(sq) = N
            /\ \A r \in 1..N : Len(sq[r]) = N
            /\ \A v \in 1..(N * N) :
                   Cardinality({rc \in (1..N) \X (1..N) : sq[rc[1]][rc[2]] = v}) = 1
            /\ \A r \in 1..N : SumSeq(sq[r]) = M
            /\ \A c \in 1..N : SumSeq([r \in 1..N |-> sq[r][c]]) = M
            /\ SumSeq([i \in 1..N |-> sq[i][i]]) = M
            /\ SumSeq([i \in 1..N |-> sq[i][N + 1 - i]]) = M

\* the Saturn square, after both separators have been set
C9_Witness ==
    /\ pc = "built"
    /\ cipher.kind = "MagicSquare"
    /\ args[2] = "Saturn"
    /\ cipher.size = 3
    /\ cipher.separator = <<45>>
    /\ cipher.coord_separator = <<46>>

\* the grid with the chars of s laid out row by row
GridOf(s) == [row \in 1..5 |-> [col \in 1..5 |-> s[(row - 1) * 5 + col]]]

\* C10: with_alphabet(s) lays s out as the grid only when s is 25 chars, all
\* different; for every other s the grid is the standard one; so the grid of
\* every Polybius value holds 25 chars, all different.
C10_PolybiusGridDistinct ==
    cipher.kind = "Polybius" =>
        /\ Cardinality({cipher.grid[rc[1]][rc[2]] : rc \in (1..5) \X (1..5)}) = 25
        /\ args[1] = "Polybius::with_alphabet" =>
               LET s == args[2]
                   unique25 == Len(s) = 25 /\ Cardinality({s[i] : i \in 1..Len(s)}) = 25
               IN  cipher.grid = IF unique25 THEN GridOf(s) ELSE standard_grid

\* the part of C10 that the code keeps: the length alone decides
PolybiusGridByLength ==
    (cipher.kind = "Polybius" /\ args[1] = "Polybius::with_alphabet") =>
        cipher.grid = IF Len(args[2]) = 25 THEN GridOf(args[2]) ELSE standard_grid

\* the letter a Polybius grid files c under: upper case, J as I
Normalised(c) ==
    LET u == IF c \in Lower THEN c - 32 ELSE c
    IN  IF u = 74 THEN 73 ELSE u

DigitFree(s) == \A i \in 1..Len(s) : ~is_ascii_digit(s[i])

LettersOnly(s) == \A i \in 1..Len(s) : is_ascii_alphabetic(s[i])

\* where the i-th of tokens of two chars starts when sep stands between them
TokenStart(i, sep) == ((i - 1) * (2 + Len(sep))) + 1

\* C11: with the standard grid or a grid of with_key, a separator that is
\* empty or holds no digit, and a text s of ASCII letters only, encrypt(s) is
\* one coordinate of two digits 1..5 per letter (row then column of the cell
\* holding the letter, upper-cased and with J as I), the separator standing
\* between them, and decrypt gives back s upper-cased with J as I;
\* "HELLO" becomes "2315313134" under the defaults.
C11_PolybiusRoundTrip ==
    (/\ cipher.kind = "Polybius"
     /\ pc \in {"encrypted", "decrypted", "panicked"}
     /\ args[1] \in {"Polybius::new", "Polybius::with_key"}
     /\ DigitFree(cipher.separator)
     /\ LettersOnly(input)) =>
        LET sep == cipher.separator
            n == Len(input)
        IN  /\ ~panicked
            /\ Len(ct) = IF n = 0 THEN 0 ELSE (2 * n) + ((n - 1) * Len(sep))
            /\ \A i \in 1..n :
                   LET p == TokenStart(i, sep)
                   IN  /\ ct[p] \in 49..53
                       /\ ct[p + 1] \in 49..53
                       /\ cipher.grid[ct[p] - 48][ct[p + 1] - 48] = Normalised(input[i])
                       /\ i < n => SubSeq(ct, p + 2, p + 1 + Len(sep)) = sep
            /\ pc = "decrypted" => dt = [i \in 1..n |-> Normalised(input[i])]
            /\ (args[1] = "Polybius::new" /\ sep = <<>>
                    /\ input = <<72, 69, 76, 76, 79>>) =>
                   ct = <<50, 51, 49, 53, 51, 49, 51, 49, 51, 52>>

\* a grid keyed with "kE" and separated by ", " has taken "Bj" to two
\* coordinates and back to "BI"
C11_Witness ==
    /\ pc = "decrypted"
    /\ cipher.kind = "Polybius"
    /\ args[1] = "Polybius::with_key"
    /\ args[2] = <<107, 69>>
    /\ cipher.separator = <<44, 32>>
    /\ input = <<66, 106>>
    /\ Len(ct) = 6
    /\ dt = <<66, 73>>

RECURSIVE JoinWith(_, _)
\* the tokens in their order with sep between every two neighbours
JoinWith(tokens, sep) ==
    IF tokens = <<>> THEN <<>>
    ELSE IF Len(tokens) = 1 THEN tokens[1]
    ELSE tokens[1] \o sep \o JoinWith(Tail(tokens), sep)

CharsOf(s) == {s[i] : i \in 1..Len(s)}

\* the cells (row, column from 1) of the square that hold the value v
CellsHolding(self, v) ==
    {rc \in (1..self.size) \X (1..self.size) : self.square[rc[1]][rc[2]] = v}

\* both separators are not empty, hold no digit and share no char
SeparatorsApart(self) ==
    /\ self.separator # <<>>
    /\ self.coord_separator # <<>>
    /\ DigitFree(self.separator)
    /\ DigitFree(self.coord_separator)
    /\ CharsOf(self.separator) \cap CharsOf(self.coord_separator) = {}

\* upper case letters whose number (A = 1) the square holds
InCapacityUpper(self, s) ==
    \A i \in 1..Len(s) :
        /\ s[i] \in Upper
        /\ s[i] - 64 <= self.size * self.size

\* C12: for every planet, with separators that are not empty, hold no digit
\* and share no char (the defaults " " and "," among them), and every text s
\* of upper case letters whose number (A = 1) is at most min(N*N, 26), each
\* letter is written as the row and the column (from 1) of the one cell that
\* holds its number, the tokens are joined by the separator, and
\* decrypt(encrypt(s)) = s; Saturn writes "A" as "2,3".
C12_MagicSquareRoundTrip ==
    (/\ cipher.kind = "MagicSquare"
     /\ pc \in {"encrypted", "decrypted"}
     /\ SeparatorsApart(cipher)
     /\ InCapacityUpper(cipher, input)) =>
        /\ \A i \in 1..Len(input) : Cardinality(CellsHolding(cipher, input[i] - 64)) = 1
        /\ ct = JoinWith([i \in 1..Len(input) |->
                             LET rc == CHOOSE x \in CellsHolding(cipher, input[i] - 64) : TRUE
                             IN  <<48 + rc[1]>> \o cipher.coord_separator \o <<48 + rc[2]>>],
                         cipher.separator)
        /\ pc = "decrypted" => dt = input
        /\ (args[2] = "Saturn" /\ cipher.coord_separator = <<44>> /\ input = <<65>>) =>
               ct = <<50, 44, 51>>

\* the Moon square with "-" between tokens and "." inside them has taken
\* "AIZ" to three tokens and back
C12_Witness ==
    /\ pc = "decrypted"
    /\ cipher.kind = "MagicSquare"
    /\ args[2] = "Moon"
    /\ cipher.separator = <<45>>
    /\ cipher.coord_separator = <<46>>
    /\ input = <<65, 73, 90>>
    /\ Len(ct) = 11
    /\ dt = input

RECURSIVE LettersOfPairs(_, _)
\* the letters of a run of digits taken two at a time: a pair with both
\* digits in 1..5 gives its cell, any other pair nothing, a last single
\* digit nothing
LettersOfPairs(self, ds) ==
    IF Len(ds) < 2 THEN <<>>
    ELSE (IF ds[1] \in 49..53 /\ ds[2] \in 49..53
          THEN <<self.grid[ds[1] - 48][ds[2] - 48]>> ELSE <<>>)
             \o LettersOfPairs(self, Tail(Tail(ds)))

\* C13: Polybius decrypt returns a string for every text, with digits 0 and
\* 6..9, an odd number of digits and separators anywhere; of a text of digits
\* only it returns the letters of the pairs with both digits in 1..5, in
\* their order, and drops a last single digit.
C13_PolybiusDecryptTotal ==
    (cipher.kind = "Polybius" /\ pc \in {"decoded", "panicked"}) =>
        /\ ~panicked
        /\ (\A i \in 1..Len(ct) : is_ascii_digit(ct[i])) => dt = LettersOfPairs(cipher, ct)

\* the same while no pair of digits starts or ends with 0
C13_HoldsWithoutZero ==
    (/\ cipher.kind = "Polybius"
     /\ pc \in {"decoded", "panicked"}
     /\ \A i \in 1..Len(ct) : ct[i] # 48) =>
        /\ ~panicked
        /\ (\A i \in 1..Len(ct) : is_ascii_digit(ct[i])) => dt = LettersOfPairs(cipher, ct)

\* bit k (from 0) of the byte x
Bit(x, k) == (x \div (2 ^ k)) % 2

\* C14: Xor::transform_bytes returns as many bytes as it is given, byte i
\* (from 0) being the input byte XOR key[i mod key length], bit by bit, and
\* the input itself under the empty key; applied twice it returns the input;
\* the key [0xFF] takes [0x00, 0x0F, 0xF0] to [0xFF, 0xF0, 0x0F].
C14_XorTransformBytes ==
    (cipher.kind = "Xor" /\ pc \in {"transformed", "restored"}) =>
        /\ Len(ct) = Len(input)
        /\ cipher.key = <<>> => ct = input
        /\ cipher.key # <<>> =>
               \A i \in 1..Len(input) :
                   LET key_byte == cipher.key[((i - 1) % Len(cipher.key)) + 1]
                   IN  /\ ct[i] \in 0..255
                       /\ \A k \in 0..7 :
                              Bit(ct[i], k) = 1 <=> Bit(input[i], k) # Bit(key_byte, k)
        /\ pc = "restored" => dt = input
        /\ (cipher.key = <<255>> /\ input = <<0, 15, 240>>) => ct = <<255, 240, 15>>

\* the key [0x20, 0x80] has taken [0x41, 0x41, 0xFF] to [0x61, 0xC1, 0xDF]
\* and back
C14_Witness ==
    /\ pc = "restored"
    /\ cipher.kind = "Xor"
    /\ cipher.key = <<32, 128>>
    /\ input = <<65, 65, 255>>
    /\ ct = <<97, 193, 223>>
    /\ dt = input

\* the key value that meets s[i]: letters alone move the cursor
KeyShiftAt(self, s, i) == self.key[(LettersBefore(s, i - 1) % Len(self.key)) + 1]

\* C15: in Vigenere encrypt and decrypt the k-th letter of the text handed in
\* (k from 0, letters only counted) is shifted by key[k mod key length],
\* forward by encrypt and back by decrypt, whatever stands before it; every
\* other char is returned as it is; with an empty derived key both return
\* the text handed in.
C15_VigenereKeyCursor ==
    (cipher.kind = "Vigenere" /\ pc \in {"encrypted", "decrypted"}) =>
        /\ Len(ct) = Len(input)
        /\ pc = "decrypted" => Len(dt) = Len(ct)
        /\ cipher.key = <<>> => (ct = input /\ (pc = "decrypted" => dt = ct))
        /\ cipher.key # <<>> =>
               /\ \A i \in 1..Len(input) :
                      ct[i] = IF is_ascii_alphabetic(input[i])
                              THEN ExactShift(input[i], KeyShiftAt(cipher, input, i))
                              ELSE input[i]
               /\ pc = "decrypted" =>
                      \A i \in 1..Len(ct) :
                          dt[i] = IF is_ascii_alphabetic(ct[i])
                                  THEN ExactUnshift(ct[i], KeyShiftAt(cipher, ct, i))
                                  ELSE ct[i]

\* the key "kE" has taken "B5y" to "L5c", the digit between the letters not
\* moving the cursor, and back
C15_Witness ==
    /\ pc = "decrypted"
    /\ cipher.kind = "Vigenere"
    /\ args[2] = <<107, 69>>
    /\ cipher.key = <<10, 4>>
    /\ input = <<66, 53, 121>>
    /\ ct = <<76, 53, 99>>
    /\ dt = input

\* the key "1", which holds no letter, has left "By" as it was
C15_EmptyKeyWitness ==
    /\ pc = "decrypted"
    /\ cipher.kind = "Vigenere"
    /\ args[2] = <<49>>
    /\ cipher.key = <<>>
    /\ input = <<66, 121>>
    /\ ct = input

\* the cells (row, column from 1) of the grid that hold the char c
GridCellsHolding(self, c) == {rc \in (1..5) \X (1..5) : self.grid[rc[1]][rc[2]] = c}

\* what one char of the input is to become: the coordinate of its letter
\* when the grid holds it, the char itself otherwise
PolybiusToken(self, c) ==
    IF is_ascii_alphabetic(c) /\ GridCellsHolding(self, Normalised(c)) # {}
    THEN LET rc == CHOOSE x \in GridCellsHolding(self, Normalised(c)) :
                       \A y \in GridCellsHolding(self, Normalised(c)) :
                           (x[1] * 5) + x[2] <= (y[1] * 5) + y[2]
         IN  <<48 + rc[1], 48 + rc[2]>>
    ELSE <<c>>

\* the char is written as a coordinate
IsCoordinate(self, c) ==
    is_ascii_alphabetic(c) /\ GridCellsHolding(self, Normalised(c)) # {}

RECURSIVE SeparatedTokens(_, _, _)
\* the tokens of s from the i-th on, the separator standing between two
\* neighbours exactly when both are coordinates
SeparatedTokens(self, s, i) ==
    IF i > Len(s) THEN <<>>
    ELSE (IF i > 1 /\ IsCoordinate(self, s[i]) /\ IsCoordinate(self, s[i - 1])
          THEN self.separator ELSE <<>>)
             \o PolybiusToken(self, s[i]) \o SeparatedTokens(self, s, i + 1)

\* C16: Polybius encrypt with a separator that is not empty writes the
\* separator exactly between two neighbouring tokens that are both
\* coordinates of letters: never first, never next to a char passed through,
\* a digit or a char of two bytes such as e-acute included.
C16_PolybiusSeparatorBetweenCoordinates ==
    (/\ cipher.kind = "Polybius"
     /\ pc \in {"encrypted", "decrypted", "panicked"}
     /\ cipher.separator # <<>>) =>
        ct = SeparatedTokens(cipher, input, 1)

\* the same for texts of ASCII chars only
C16_HoldsForOneBytePassthrough ==
    (/\ cipher.kind = "Polybius"
     /\ pc \in {"encrypted", "decrypted", "panicked"}
     /\ cipher.separator # <<>>
     /\ \A i \in 1..Len(input) : input[i] < 128) =>
        ct = SeparatedTokens(cipher, input, 1)

\* what one char of the input is to become under a magic square
MagicSquareToken(self, c) ==
    LET u == IF c \in Lower THEN c - 32 ELSE c
        cells == CellsHolding(self, u - 64)
    IN  IF is_ascii_alphabetic(c) /\ cells # {}
        THEN LET rc == CHOOSE x \in cells : TRUE
             IN  <<48 + rc[1]>> \o self.coord_separator \o <<48 + rc[2]>>
        ELSE <<c>>

MagicSquareIsCoordinate(self, c) ==
    LET u == IF c \in Lower THEN c - 32 ELSE c
    IN  is_ascii_alphabetic(c) /\ CellsHolding(self, u - 64) # {}

RECURSIVE MagicSquareSeparatedTokens(_, _, _)
\* the tokens of s from the i-th on, the separator standing between two
\* neighbours exactly when both are coordinates
MagicSquareSeparatedTokens(self, s, i) ==
    IF i > Len(s) THEN <<>>
    ELSE (IF i > 1 /\ MagicSquareIsCoordinate(self, s[i])
               /\ MagicSquareIsCoordinate(self, s[i - 1])
          THEN self.separator ELSE <<>>)
             \o MagicSquareToken(self, s[i]) \o MagicSquareSeparatedTokens(self, s, i + 1)

\* C17: MagicSquare encrypt writes the separator exactly between two
\* neighbouring tokens that are both coordinates of letters the square holds:
\* never first and never next to a char passed through, whatever the two
\* separators are, a passed-through ',' under the defaults and an empty
\* coordinate separator included.
C17_MagicSquareSeparatorBetweenCoordinates ==
    (cipher.kind = "MagicSquare" /\ pc \in {"encrypted", "decrypted"}) =>
        ct = MagicSquareSeparatedTokens(cipher, input, 1)

\* the same while no char passed through holds the coordinate separator,
\* which is not empty
C17_HoldsWithoutCoordSeparatorInText ==
    (/\ cipher.kind = "MagicSquare"
     /\ pc \in {"encrypted", "decrypted"}
     /\ cipher.coord_separator # <<>>
     /\ \A i \in 1..Len(input) :
            MagicSquareIsCoordinate(cipher, input[i])
                \/ ~contains(<<input[i]>>, cipher.coord_separator)) =>
        ct = MagicSquareSeparatedTokens(cipher, input, 1)

RECURSIVE DecodedInPlace(_, _)
\* a text read from the left with no separator set: two digits next to each
\* other give the letter of their cell when both are in 1..5 and nothing
\* otherwise, a digit with no digit after it gives nothing, every other char
\* gives itself
DecodedInPlace(self, s) ==
    IF s = <<>> THEN <<>>
    ELSE IF is_ascii_digit(s[1])
    THEN IF Len(s) >= 2 /\ is_ascii_digit(s[2])
         THEN LettersOfPairs(self, <<s[1], s[2]>>) \o DecodedInPlace(self, Tail(Tail(s)))
         ELSE DecodedInPlace(self, Tail(s))
    ELSE <<s[1]>> \o DecodedInPlace(self, Tail(s))

\* an upper case letter other than J, or ASCII punctuation
PlainOrPunctuation(c) ==
    \/ c \in Upper \ {74}
    \/ c < 128 /\ ~is_ascii_alphanumeric(c) /\ c # 32

\* C18: Polybius decrypt decodes each run of digits where it stands: a
\* coordinate becomes its letter at the place of the coordinate and every
\* char that is no digit and no part of the separator stays at its own
\* place, so letters and chars passed through keep their order; with the
\* standard grid and no separator decrypt(encrypt(s)) = s for every s of
\* upper case letters other than J and punctuation, "A,B.C" among them.
C18_PolybiusDecryptInPlace ==
    (/\ cipher.kind = "Polybius"
     /\ pc \in {"decrypted", "panicked"}
     /\ cipher.separator = <<>>) =>
        /\ ~panicked
        /\ dt = DecodedInPlace(cipher, ct)
        /\ (args[1] = "Polybius::new"
                /\ \A i \in 1..Len(input) : PlainOrPunctuation(input[i])) => dt = input

\* the same for texts in which no char passed through stands before a letter
C18_HoldsWithPassthroughLast ==
    (/\ cipher.kind = "Polybius"
     /\ pc \in {"decrypted", "panicked"}
     /\ cipher.separator = <<>>
     /\ \A i \in 1..Len(input) : \A j \in 1..Len(input) :
            (i < j /\ ~is_ascii_alphabetic(input[i])) => ~is_ascii_alphabetic(input[j])) =>
        /\ ~panicked
        /\ dt = DecodedInPlace(cipher, ct)
        /\ (args[1] = "Polybius::new"
                /\ \A i \in 1..Len(input) : PlainOrPunctuation(input[i])) => dt = input

\* C19: Polybius encrypt drops no char of its input, whatever the grid
\* (standard, keyed, or a custom alphabet of 25 chars that lacks letters):
\* every char gives one token, the coordinate of its letter (upper-cased, J
\* as I) when the grid holds it and the char itself when it does not.
C19_PolybiusEncryptKeepsEveryChar ==
    (cipher.kind = "Polybius" /\ pc \in {"encrypted", "decrypted", "panicked"}) =>
        /\ cipher.separator = <<>> =>
               ct = Concat([i \in 1..Len(input) |-> PolybiusToken(cipher, input[i])])
        /\ (cipher.separator # <<>> /\ \A i \in 1..Len(input) : input[i] < 128) =>
               ct = SeparatedTokens(cipher, input, 1)

\* the same for texts whose letters the grid all holds
C19_HoldsWhenGridHoldsTheLetters ==
    (/\ cipher.kind = "Polybius"
     /\ pc \in {"encrypted", "decrypted", "panicked"}
     /\ \A i \in 1..Len(input) :
            is_ascii_alphabetic(input[i]) => IsCoordinate(cipher, input[i])) =>
        /\ cipher.separator = <<>> =>
               ct = Concat([i \in 1..Len(input) |-> PolybiusToken(cipher, input[i])])
        /\ (cipher.separator # <<>> /\ \A i \in 1..Len(input) : input[i] < 128) =>
               ct = SeparatedTokens(cipher, input, 1)

====
